---- MODULE Spec2Model ----
(***************************************************************************)
(* OO.ui.SelectFileWidget (src/widgets/SelectFileInputWidget.js): the      *)
(* selected file, the MIME filter, the change notification and the         *)
(* thumbnail preview of the drop-target variant.                           *)
(*                                                                         *)
(* One action per event handler or public method.  A handler runs to       *)
(* completion on the UI thread, so an action is the whole handler with     *)
(* every listener it triggers synchronously; the FileReader and <img>      *)
(* completions are the only asynchronous steps and are actions of their    *)
(* own.  Strings that the code inspects (MIME types, accept patterns) are  *)
(* sequences of one-character strings, so that substr and indexOf are      *)
(* computed rather than assumed.                                           *)
(*                                                                         *)
(* Spec is the widget under its events.  SpecAllowed and SpecFilename      *)
(* apply the query methods isAllowedType and getFilename to inputs drawn   *)
(* from bounded sets of strings.                                           *)
(*                                                                         *)
(* Environment: every File has a non-empty name (as files of a picker or   *)
(* of a drop have), so info.setValue( getFilename() ) clears the info      *)
(* field only when no file is selected.                                    *)
(***************************************************************************)
EXTENDS Integers, Sequences, FiniteSets

\* ------------------------------------------------------------------ bounds

\* change notifications a run may emit
MaxChanges == 2

\* previews a run may start (file reads begun by loadAndGetImageUrl)
MaxPreviews == 2

\* length of the MIME type strings handed to isAllowedType
MaxMimeLen == 3

\* patterns in an accept list handed to isAllowedType
MaxAcceptLen == 2

\* length of the native input's raw string value handed to getFilename
MaxValueLen == 4

\* ------------------------------------------------------------------ strings

ImagePng == <<"i", "m", "a", "g", "e", "/", "p", "n", "g">>
ImageJpeg == <<"i", "m", "a", "g", "e", "/", "j", "p", "e", "g">>
TextPlain == <<"t", "e", "x", "t", "/", "p", "l", "a", "i", "n">>
ImageStar == <<"i", "m", "a", "g", "e", "/", "*">>
ImageSlash == <<"i", "m", "a", "g", "e", "/">>
SlashStar == <<"/", "*">>
EmptyString == <<>>

Min(a, b) == IF a < b THEN a ELSE b
Max(a, b) == IF a > b THEN a ELSE b

\* String.prototype.substr( start, length ): a negative start counts from the end
substr(s, start, length) ==
    LET from == IF start < 0 THEN Max(Len(s) + start, 0) ELSE Min(start, Len(s))
        count == Max(Min(length, Len(s) - from), 0)
    IN SubSeq(s, from + 1, from + count)

\* s.indexOf( t ) === 0
indexOfIsZero(s, t) == Len(s) >= Len(t) /\ SubSeq(s, 1, Len(t)) = t

\* the strings over alphabet of length up to n
Strings(alphabet, n) == UNION {[1 .. k -> alphabet] : k \in 0 .. n}

Backslash == "\\"

RECURSIVE split(_, _)
\* String.prototype.split( sep ) for a one-character separator
split(s, sep) ==
    IF \A k \in 1 .. Len(s) : s[k] # sep
    THEN <<s>>
    ELSE LET k == CHOOSE j \in 1 .. Len(s) :
                      s[j] = sep /\ \A h \in 1 .. j - 1 : s[h] # sep
         IN <<SubSeq(s, 1, k - 1)>> \o split(SubSeq(s, k + 1, Len(s)), sep)

\* mutant: the first element is taken
pop_First(a) == a[1]

\* Array.prototype.pop(): the last element
pop(a) == a[Len(a)]

\* ------------------------------------------------------------------ files

\* this.currentFile = null
NoFile == 0

MiB == 1024 * 1024

\* The File objects of the environment, by reference.
Files == 1 .. 5

FileType(f) ==
    CASE f = 1 -> ImagePng
      [] f = 2 -> ImagePng
      [] f = 3 -> TextPlain
      [] f = 4 -> EmptyString
      [] f = 5 -> ImageJpeg

\* file.name: a File's name is kept as it is, whatever characters it has
FileName(f) ==
    CASE f = 1 -> <<"a">>
      [] f = 2 -> <<"b">>
      [] f = 3 -> <<"a", ".", "t">>
      [] f = 4 -> <<"a", Backslash, "b">>
      [] f = 5 -> <<"b", Backslash>>

\* file.size in bytes: one byte under the default limit, exactly at it, small
FileSize(f) ==
    CASE f = 1 -> 20 * MiB - 1
      [] f = 2 -> 20 * MiB
      [] f = 3 -> 10
      [] f = 4 -> 10
      [] f = 5 -> 1 * MiB

\* config.accept: null, or an array of MIME patterns
AcceptAll == [isArray |-> FALSE, list |-> <<>>]
AcceptList(l) == [isArray |-> TRUE, list |-> l]
AcceptConfigs == {AcceptAll, AcceptList(<<ImageStar>>)}

\* the MIME type strings and the accept configurations isAllowedType is tried on
MimeAlphabet == {"i", "/", "*"}
MimeTypes == Strings(MimeAlphabet, MaxMimeLen)
Patterns ==
    {<<"i", "/", "*">>, <<"i", "/", "i">>, <<"/", "*">>, <<"*">>,
     <<"i", "i", "/", "*">>}
AcceptSamples ==
    {AcceptAll} \cup {AcceptList(l) : l \in Strings(Patterns, MaxAcceptLen)}

\* the raw string values of the native input getFilename is tried on
RawValues == Strings({"a", Backslash}, MaxValueLen)

\* config.thumbnailSizeLimit in MiB (20 is the default)
ThumbnailSizeLimits == {20}

\* what an <img> load event can report: naturalWidth, naturalHeight, complete
DecodeResults ==
    {[w |-> 1, h |-> 1, complete |-> TRUE], [w |-> 0, h |-> 1, complete |-> TRUE],
     [w |-> 1, h |-> 0, complete |-> TRUE], [w |-> 1, h |-> 1, complete |-> FALSE]}

\* ------------------------------------------------------------------ state

VARIABLES
    accept,             \* this.accept (line 57-61), fixed at construction
    thumbnailSizeLimit, \* this.thumbnailSizeLimit (line 318)
    isSupported,        \* OO.ui.SelectFileWidget.static.isSupported()
    droppable,          \* config.droppable && isSupported: the drag handlers are bound
    showDropTarget,     \* this.showDropTarget (line 317)
    disabled,           \* this.isDisabled()
    currentFile,        \* this.currentFile
    canDrop,            \* $element has class oo-ui-selectFileWidget-canDrop
    previews,           \* the Deferreds made by loadAndGetImageUrl whose read was started
    pendingCount,       \* pushPending() calls minus popPending() calls
    bgImage,            \* $thumbnail's background-image: the file whose data URL it shows
    icons,              \* fallback IconWidgets appended to $thumbnail
    changeCount,        \* 'change' events emitted so far
    lastChange,         \* the argument of the last 'change' event
    emitLog,            \* what the last emit( 'change' ) did, in program order
    inputClearing,      \* this.inputClearing (undefined, so false, until line 539 runs)
    call,               \* the last call of a query method (isAllowedType, getFilename):
                        \* its arguments and what it returned
    lastOp              \* the last selection entry point that ran (onFileSelected, onDrop,
                        \* setValue, onInfoChange), the file it was given and whether it
                        \* emitted 'change'

vars ==
    <<accept, thumbnailSizeLimit, isSupported, droppable, showDropTarget, disabled,
      currentFile, canDrop, previews, pendingCount, bgImage, icons, changeCount,
      lastChange, emitLog, inputClearing, call, lastOp>>

config == <<accept, thumbnailSizeLimit, isSupported, droppable, showDropTarget>>

thumbnail == <<previews, pendingCount, bgImage, icons>>

\* the bounds of the model: a selection entry point runs while they leave room
WithinBounds == changeCount < MaxChanges /\ Len(previews) < MaxPreviews

\* no query method was called yet
NoCall == [fn |-> "none"]

\* emitted: whether the entry point emitted 'change'
Op(name, file) == [op |-> name, file |-> file, emitted |-> changeCount' # changeCount]

\* ------------------------------------------------------------------ pure parts

RECURSIVE isAllowedTypeLoop(_, _, _)
\* the for loop of isAllowedType, from index i (1-based)
isAllowedTypeLoop(list, mimeType, i) ==
    IF i > Len(list)
    THEN FALSE
    ELSE LET mimeTest == list[i]
         IN IF mimeTest = mimeType
            THEN TRUE
            ELSE IF substr(mimeTest, -2, Len(mimeTest)) = SlashStar
                 THEN LET prefix == substr(mimeTest, 0, Len(mimeTest) - 1)
                      IN IF substr(mimeType, 0, Len(prefix)) = prefix
                         THEN TRUE
                         ELSE isAllowedTypeLoop(list, mimeType, i + 1)
                 ELSE isAllowedTypeLoop(list, mimeType, i + 1)

\* mutant: an empty MIME type is tested against the list like any other
isAllowedType_EmptyTypeTested(acc, mimeType) ==
    IF ~acc.isArray
    THEN TRUE
    ELSE isAllowedTypeLoop(acc.list, mimeType, 1)

isAllowedType(acc, mimeType) ==
    IF ~acc.isArray \/ mimeType = EmptyString
    THEN TRUE
    ELSE isAllowedTypeLoop(acc.list, mimeType, 1)

\* SelectFileInputWidget.getFilename: value is this.getValue(), the native
\* input's string value
SelectFileInputWidget_getFilename(cur, value) ==
    IF cur # NoFile
    THEN FileName(cur)
    ELSE pop(split(value, Backslash))

\* SelectFileWidget.getFilename
getFilename(cur) == IF cur # NoFile THEN FileName(cur) ELSE EmptyString

\* mutant: the size test lets a file of exactly the limit through
qualifies_NotStrict(file, limit) ==
    /\ file # NoFile
    /\ indexOfIsZero(FileType(file), ImageSlash)
    /\ FileSize(file) <= limit * 1024 * 1024

\* mutant: the file's type is not looked at
qualifies_AnyType(file, limit) ==
    /\ file # NoFile
    /\ FileSize(file) < limit * 1024 * 1024

\* the condition of loadAndGetImageUrl under which the file is read
qualifies(file, limit) ==
    /\ file # NoFile
    /\ indexOfIsZero(FileType(file), ImageSlash)
    /\ FileSize(file) < limit * 1024 * 1024

\* mutant: the load listener does not look at img.complete
imgLoadResolves_NoCompleteTest(d) ==
    ~(d.w = 0 \/ d.h = 0)

\* the <img> load listener: resolve (TRUE) or reject (FALSE)
imgLoadResolves(d) ==
    ~(d.w = 0 \/ d.h = 0 \/ d.complete = FALSE)

\* mutant: setValue assigns and emits without comparing
setValueChanges_Always(cur, file) == TRUE

\* mutant: setValue ignores null
setValueChanges_NotForNull(cur, file) == cur # file /\ file # NoFile

\* setValue's test
setValueChanges(cur, file) == cur # file

\* mutant: onFileSelected does not filter by MIME type
onFileSelectedFile_NoFilter(acc, file) == file

\* onFileSelected: the file handed to setValue
onFileSelectedFile(acc, file) ==
    IF file # NoFile /\ ~isAllowedType(acc, FileType(file)) THEN NoFile ELSE file

\* mutant: onDrop does not filter by MIME type
onDropFile_NoFilter(dis, acc, file) ==
    IF dis THEN NoFile ELSE file

\* mutant: onDrop does not test isDisabled()
onDropFile_NoDisabledTest(dis, acc, file) ==
    IF file # NoFile /\ ~isAllowedType(acc, FileType(file)) THEN NoFile ELSE file

\* onDrop: the file handed to setValue, NoFile when setValue is not called
onDropFile(dis, acc, file) ==
    IF dis
    THEN NoFile
    ELSE IF file # NoFile /\ ~isAllowedType(acc, FileType(file)) THEN NoFile ELSE file

\* mutant: the handler does not test this.inputClearing
onFileSelectedCalls_NoGuard(clearing, acc, file) == <<onFileSelectedFile(acc, file)>>

\* the setValue calls one invocation of onFileSelected makes when
\* this.inputClearing is clearing on entry: none when it returns at line 529
onFileSelectedCalls(clearing, acc, file) ==
    IF clearing THEN <<>> ELSE <<onFileSelectedFile(acc, file)>>

\* mutant: a disabled widget looks at the payload too
droppableFile_NoDisabledTest(dis, acc, itemOrFile, typesHasFiles) ==
    IF itemOrFile # NoFile
    THEN isAllowedType(acc, FileType(itemOrFile))
    ELSE typesHasFiles

\* onDragEnterOrOver: whether the canDrop class is on $element afterwards
droppableFile(dis, acc, itemOrFile, typesHasFiles) ==
    IF dis
    THEN FALSE
    ELSE IF itemOrFile # NoFile
         THEN isAllowedType(acc, FileType(itemOrFile))
         ELSE typesHasFiles

\* mutant: setDisabled passes the caller's value on as it is
setDisabledValue_AsGiven(d, supported) == d

\* setDisabled: disabled = disabled || !isSupported(); the constructor does the
\* same to config.disabled (line 301-303)
setDisabledValue(d, supported) == d \/ ~supported

\* ------------------------------------------------------------------ updateUI

\* a preview: the file read, how far the read and the decode got, and the
\* Deferred's state
NewPreview(file) ==
    [file |-> file, stage |-> "reading", state |-> "pending"]

\* mutant: popPending is not called when the Deferred settles
alwaysPop_Missing(n) == n

\* .always( popPending ), line 465-467
alwaysPop(n) == n - 1

\* SelectFileWidget.prototype.updateUI with this.currentFile = file, and the
\* synchronous part of loadAndGetImageUrl, on the thumbnail th (its previews,
\* pending count, background image and icons).  A Deferred rejected before .fail
\* and .always are attached runs them at once, inside updateUI.
updateUIOn(th, file) ==
    IF ~isSupported
    THEN th
    ELSE IF file # NoFile
         THEN IF showDropTarget
              THEN IF qualifies(file, thumbnailSizeLimit)
                   THEN [th EXCEPT !.pendingCount = @ + 1,
                                   !.previews = Append(@, NewPreview(file))]
                   ELSE [th EXCEPT !.pendingCount = alwaysPop(@ + 1),
                                   !.icons = @ + 1]
              ELSE th
         ELSE IF showDropTarget
              THEN [th EXCEPT !.icons = 0, !.bgImage = NoFile]
              ELSE th

\* what setValue reads and writes, directly or through updateUI
Selection ==
    [currentFile |-> currentFile, changeCount |-> changeCount,
     lastChange |-> lastChange, emitLog |-> emitLog,
     thumbnail |-> [previews |-> previews, pendingCount |-> pendingCount,
                    bgImage |-> bgImage, icons |-> icons]]

\* updateUI run on the widget's thumbnail
updateUI(file) ==
    \E th \in {updateUIOn(Selection.thumbnail, file)} :
       /\ previews' = th.previews
       /\ pendingCount' = th.pendingCount
       /\ bgImage' = th.bgImage
       /\ icons' = th.icons

\* the calls updateUI makes, in program order
updateUILog(file) ==
    IF ~isSupported
    THEN <<>>
    ELSE IF file # NoFile
         THEN IF showDropTarget
              THEN IF qualifies(file, thumbnailSizeLimit)
                   THEN <<"pushPending", "readAsDataURL">>
                   ELSE <<"pushPending", "reject", "appendIcon", "popPending">>
              ELSE <<>>
         ELSE IF showDropTarget THEN <<"emptyThumbnail">> ELSE <<>>

\* emit( 'change', file ): the listeners run in the order they were connected.
\* updateUI was connected in the constructor (line 69), before the host
\* application could connect anything.
emitChange(file) ==
    <<"updateUI">> \o updateUILog(file) \o <<"hostListeners">>

\* mutant: setValue emits 'change' before updateUI is connected as a listener,
\* so the host application's listeners run first
setValueLog_HostFirst(file) ==
    <<"assign", "emit", "hostListeners", "updateUI">> \o updateUILog(file)

\* SelectFileWidget.prototype.setValue, in program order
setValueLog(file) ==
    <<"assign", "emit">> \o emitChange(file)

\* SelectFileWidget.prototype.setValue on the selection w
setValueOn(w, file) ==
    IF setValueChanges(w.currentFile, file)
    THEN [currentFile |-> file,
          changeCount |-> w.changeCount + 1,
          lastChange |-> file,
          emitLog |-> setValueLog(file),
          thumbnail |-> updateUIOn(w.thumbnail, file)]
    ELSE w

RECURSIVE setValueAllOn(_, _)
\* the setValue calls of one handler, in program order
setValueAllOn(w, calls) ==
    IF calls = <<>>
    THEN w
    ELSE setValueAllOn(setValueOn(w, Head(calls)), Tail(calls))

\* after setValue( file ) this.currentFile is file, assigned or not; what the
\* calls emitted and did to the thumbnail depends on each one's test
setValueAll(calls) ==
    /\ currentFile' = IF calls = <<>> THEN currentFile ELSE calls[Len(calls)]
    /\ \E w \in {setValueAllOn(Selection, calls)} :
       /\ changeCount' = w.changeCount
       /\ lastChange' = w.lastChange
       /\ emitLog' = w.emitLog
       /\ previews' = w.thumbnail.previews
       /\ pendingCount' = w.thumbnail.pendingCount
       /\ bgImage' = w.thumbnail.bgImage
       /\ icons' = w.thumbnail.icons

setValue(file) == setValueAll(<<file>>)

\* ------------------------------------------------------------------ Init

Init ==
    /\ accept \in AcceptConfigs
    /\ thumbnailSizeLimit \in ThumbnailSizeLimits
    /\ isSupported \in BOOLEAN
    /\ \E cfgDroppable \in BOOLEAN, cfgShowDropTarget \in BOOLEAN :
          /\ droppable = (cfgDroppable /\ isSupported)
          /\ showDropTarget = (cfgDroppable /\ isSupported /\ cfgShowDropTarget)
    /\ \E cfgDisabled \in BOOLEAN : disabled = setDisabledValue(cfgDisabled, isSupported)
    /\ currentFile = NoFile
    /\ canDrop = FALSE
    /\ previews = <<>>
    /\ pendingCount = 0
    /\ bgImage = NoFile
    /\ icons = 0
    /\ changeCount = 0
    /\ lastChange = NoFile
    /\ emitLog = <<>>
    /\ inputClearing = FALSE
    /\ call = NoCall
    /\ lastOp = [op |-> "constructor", file |-> NoFile, emitted |-> FALSE]

\* ------------------------------------------------------------------ handlers

\* the native input's change event; file is e.target.files[ 0 ] or NoFile.
\* Resetting the native input (line 540) may deliver a change event of its own:
\* the handler then runs again inside this call, with this.inputClearing set
\* and no file in the input.
onFileSelected(file) ==
    /\ WithinBounds
    /\ \E nested \in BOOLEAN :
          LET outer == onFileSelectedCalls(inputClearing, accept, file)
              duringReset ==
                  IF nested THEN onFileSelectedCalls(TRUE, accept, NoFile) ELSE <<>>
          IN /\ setValueAll(IF outer = <<>> THEN <<>> ELSE duringReset \o outer)
             /\ lastOp' =
                   IF nested
                   THEN [op |-> "onFileSelected", file |-> file,
                         emitted |-> changeCount' # changeCount, nested |-> TRUE]
                   ELSE Op("onFileSelected", file)
    /\ inputClearing' = FALSE
    /\ UNCHANGED <<call, config, disabled, canDrop>>

\* the drop event; file is dataTransfer.files[ 0 ] or NoFile
onDrop(file) ==
    /\ droppable
    /\ WithinBounds
    /\ canDrop' = FALSE
    /\ IF onDropFile(disabled, accept, file) # NoFile
       THEN setValue(onDropFile(disabled, accept, file))
       ELSE UNCHANGED <<currentFile, changeCount, lastChange, emitLog, thumbnail>>
    /\ lastOp' = Op("onDrop", file)
    /\ UNCHANGED <<call, inputClearing, config, disabled>>

\* the public setValue( file ), file a File or null
setValueCall(file) ==
    /\ WithinBounds
    /\ setValue(file)
    /\ lastOp' = Op("setValue", file)
    /\ UNCHANGED <<call, inputClearing, config, disabled, canDrop>>

\* the info field's clear indicator: its change event carries ''
onInfoChange ==
    /\ WithinBounds
    /\ setValue(NoFile)
    /\ lastOp' = Op("onInfoChange", NoFile)
    /\ UNCHANGED <<call, inputClearing, config, disabled, canDrop>>

setDisabled(d) ==
    /\ disabled' = setDisabledValue(d, isSupported)
    /\ UNCHANGED lastOp
    /\ UNCHANGED <<call, inputClearing, config, currentFile, canDrop, thumbnail, changeCount,
                   lastChange, emitLog>>

\* dragenter and dragover; itemOrFile is dataTransfer.items[ 0 ] || files[ 0 ],
\* typesHasFiles says whether dataTransfer.types contains 'Files'
onDragEnterOrOver(itemOrFile, typesHasFiles) ==
    /\ droppable
    /\ UNCHANGED lastOp
    /\ UNCHANGED <<call, inputClearing, config, disabled, currentFile, thumbnail, changeCount,
                   lastChange, emitLog>>
    /\ canDrop' = droppableFile(disabled, accept, itemOrFile, typesHasFiles)

onDragLeave ==
    /\ droppable
    /\ canDrop' = FALSE
    /\ UNCHANGED lastOp
    /\ UNCHANGED <<call, inputClearing, config, disabled, currentFile, thumbnail, changeCount,
                   lastChange, emitLog>>

\* ------------------------------------------------------------------ completions

\* reader.onload: the data URL is handed to a new <img>
readerOnload(i) ==
    /\ i \in 1 .. Len(previews)
    /\ previews[i].stage = "reading"
    /\ previews' = [previews EXCEPT ![i].stage = "decoding"]
    /\ UNCHANGED lastOp
    /\ UNCHANGED <<call, inputClearing, config, disabled, currentFile, canDrop, pendingCount, bgImage, icons,
                   changeCount, lastChange, emitLog>>

\* the read fails: the FileReader has no error handler
readerError(i) ==
    /\ i \in 1 .. Len(previews)
    /\ previews[i].stage = "reading"
    /\ previews' = [previews EXCEPT ![i].stage = "readError"]
    /\ UNCHANGED lastOp
    /\ UNCHANGED <<call, inputClearing, config, disabled, currentFile, canDrop, pendingCount, bgImage, icons,
                   changeCount, lastChange, emitLog>>

\* the <img> load event with what the image reports, then the Deferred's
\* callbacks: .done sets the background image, .fail appends the icon,
\* .always pops the pending state
imgLoad(i, d) ==
    /\ i \in 1 .. Len(previews)
    /\ previews[i].stage = "decoding"
    /\ previews[i].state = "pending"
    /\ previews' =
          [previews EXCEPT
              ![i] = [file |-> previews[i].file, stage |-> "loaded",
                      state |-> IF imgLoadResolves(d) THEN "resolved" ELSE "rejected"]]
    /\ IF imgLoadResolves(d)
       THEN bgImage' = previews[i].file /\ UNCHANGED icons
       ELSE icons' = icons + 1 /\ UNCHANGED bgImage
    /\ pendingCount' = alwaysPop(pendingCount)
    /\ UNCHANGED lastOp
    /\ UNCHANGED <<call, inputClearing, config, disabled, currentFile, canDrop, changeCount,
                   lastChange, emitLog>>

\* the decode fails: the <img> has no error listener
imgError(i) ==
    /\ i \in 1 .. Len(previews)
    /\ previews[i].stage = "decoding"
    /\ previews' = [previews EXCEPT ![i].stage = "decodeError"]
    /\ UNCHANGED lastOp
    /\ UNCHANGED <<call, inputClearing, config, disabled, currentFile, canDrop, pendingCount, bgImage, icons,
                   changeCount, lastChange, emitLog>>

\* ------------------------------------------------------------------ specification

Candidates == Files \cup {NoFile}

\* dataTransfer of a drag event: a first item with a type, or only the types list
DragPayloads ==
    {[itemOrFile |-> f, typesHasFiles |-> TRUE] : f \in Files}
        \cup {[itemOrFile |-> NoFile, typesHasFiles |-> b] : b \in BOOLEAN}

Next ==
    \/ \E file \in Candidates : onFileSelected(file)
    \/ \E file \in Candidates : onDrop(file)
    \/ \E file \in Candidates : setValueCall(file)
    \/ onInfoChange
    \/ \E d \in BOOLEAN : setDisabled(d)
    \/ \E dt \in DragPayloads : onDragEnterOrOver(dt.itemOrFile, dt.typesHasFiles)
    \/ onDragLeave
    \/ \E i \in 1 .. MaxPreviews : readerOnload(i)
    \/ \E i \in 1 .. MaxPreviews : readerError(i)
    \/ \E i \in 1 .. MaxPreviews, d \in DecodeResults : imgLoad(i, d)
    \/ \E i \in 1 .. MaxPreviews : imgError(i)

Spec == Init /\ [][Next]_vars

\* ------------------------------------------------------------------ query methods

\* everything but the selection, the accept list and the last query call,
\* as the constructor leaves it
Constructed ==
    /\ thumbnailSizeLimit \in ThumbnailSizeLimits
    /\ isSupported = TRUE
    /\ droppable = FALSE
    /\ showDropTarget = FALSE
    /\ disabled = FALSE
    /\ canDrop = FALSE
    /\ previews = <<>>
    /\ pendingCount = 0
    /\ bgImage = NoFile
    /\ icons = 0
    /\ changeCount = 0
    /\ lastChange = NoFile
    /\ emitLog = <<>>
    /\ inputClearing = FALSE
    /\ lastOp = [op |-> "constructor", file |-> NoFile, emitted |-> FALSE]

\* a widget constructed with any of the accept configurations
InitAllowed ==
    /\ accept \in AcceptSamples
    /\ currentFile = NoFile
    /\ call = NoCall
    /\ Constructed

\* this.isAllowedType( mimeType )
isAllowedTypeCall(mimeType) ==
    /\ call' = [fn |-> "isAllowedType", mimeType |-> mimeType,
                result |-> isAllowedType(accept, mimeType)]
    /\ UNCHANGED <<inputClearing, config, disabled, currentFile, canDrop, thumbnail, changeCount,
                   lastChange, emitLog, lastOp>>

NextAllowed == \E mimeType \in MimeTypes : isAllowedTypeCall(mimeType)

SpecAllowed == InitAllowed /\ [][NextAllowed]_vars

\* a widget with or without a selected file
InitFilename ==
    /\ accept = AcceptAll
    /\ currentFile \in Candidates
    /\ call = NoCall
    /\ Constructed

\* SelectFileInputWidget's getFilename() while the native input's value is value
SelectFileInputWidget_getFilenameCall(value) ==
    /\ call' = [fn |-> "SelectFileInputWidget.getFilename", value |-> value,
                result |-> SelectFileInputWidget_getFilename(currentFile, value)]
    /\ UNCHANGED <<inputClearing, config, disabled, currentFile, canDrop, thumbnail, changeCount,
                   lastChange, emitLog, lastOp>>

\* SelectFileWidget's getFilename()
getFilenameCall ==
    /\ call' = [fn |-> "SelectFileWidget.getFilename",
                result |-> getFilename(currentFile)]
    /\ UNCHANGED <<inputClearing, config, disabled, currentFile, canDrop, thumbnail, changeCount,
                   lastChange, emitLog, lastOp>>

NextFilename ==
    \/ \E value \in RawValues : SelectFileInputWidget_getFilenameCall(value)
    \/ getFilenameCall

SpecFilename == InitFilename /\ [][NextFilename]_vars

\* ------------------------------------------------------------------ claims

Rejected(f) == f # NoFile /\ ~isAllowedType(accept, FileType(f))

NoSelectionChange == currentFile' = currentFile /\ changeCount' = changeCount

IndexOf(log, e) == CHOOSE k \in 1 .. Len(log) : log[k] = e

Has(log, e) == \E k \in 1 .. Len(log) : log[k] = e

InFlight == {i \in 1 .. Len(previews) : previews[i].state = "pending"}

\* C1 as stated: with a file selected, a picker change event or a drop whose
\* candidate has a rejected MIME type leaves currentFile as it was and emits
\* no 'change'.
C1_Original ==
    [][\A f \in Files :
          (currentFile # NoFile /\ Rejected(f) /\ (onFileSelected(f) \/ onDrop(f)))
              => NoSelectionChange]_vars

\* C1 amended: a drop whose file has a rejected MIME type leaves currentFile as
\* it was and emits no 'change'; a picker change event whose file has a rejected
\* MIME type is handled like an empty selection: currentFile becomes null, and
\* 'change' is emitted once, with null, when a file was selected (not at all
\* when none was).
C1_RejectedCandidate ==
    [][\A f \in Files :
          Rejected(f) =>
              /\ onDrop(f) => NoSelectionChange
              /\ onFileSelected(f) =>
                    /\ currentFile' = NoFile
                    /\ IF currentFile # NoFile
                       THEN changeCount' = changeCount + 1 /\ lastChange' = NoFile
                       ELSE changeCount' = changeCount]_vars

\* a drop of the text file was rejected while the png stays selected
C1_Witness ==
    /\ accept = AcceptList(<<ImageStar>>)
    /\ currentFile = 1
    /\ lastOp = [op |-> "onDrop", file |-> 3, emitted |-> FALSE]

\* C2 as stated: with an accept list, currentFile is null or a file of an
\* allowed type in every state, public setValue( file ) calls included.
C2_Original ==
    accept.isArray => currentFile = NoFile \/ isAllowedType(accept, FileType(currentFile))

\* C2 amended: with an accept list, every picker change event, drop, clear
\* action, setDisabled call and preview completion leaves currentFile null or a
\* file of an allowed type when it was so before (as it is after construction);
\* a picker change event leaves it so in any case.  Only a public
\* setValue( file ) call, which applies no filter, can install a file of a
\* rejected type.
C2_EventsKeepAllowed ==
    [][accept.isArray =>
          /\ (\E f \in Candidates : setValueCall(f)) \/ (~Rejected(currentFile) => ~Rejected(currentFile'))
          /\ \A f \in Candidates : onFileSelected(f) => ~Rejected(currentFile')]_vars

\* the picker offered a file of a rejected type while a file was selected
C2_Witness ==
    /\ accept.isArray
    /\ currentFile = NoFile
    /\ changeCount = 2
    /\ lastOp = [op |-> "onFileSelected", file |-> 3, emitted |-> TRUE]

\* C3 as stated: while the widget is disabled, a picker change event, a drop
\* and setValue all leave currentFile as it was and emit no 'change'.
C3_Original ==
    [][\A f \in Candidates :
          (disabled /\ (onFileSelected(f) \/ onDrop(f) \/ setValueCall(f)))
              => NoSelectionChange]_vars

\* C3 amended: while the widget is disabled, a drop leaves currentFile as it was,
\* emits no 'change' and starts no preview, for any dropped file.  (setValue
\* and the onFileSelected handler do not test the disabled state.)
C3_DisabledDropIsNoOp ==
    [][\A f \in Candidates :
          (disabled /\ onDrop(f)) => NoSelectionChange /\ UNCHANGED thumbnail]_vars

\* a file every configuration accepts was dropped on the disabled widget and
\* nothing was selected
C3_Witness ==
    /\ disabled
    /\ accept = AcceptAll
    /\ changeCount = 0
    /\ currentFile = NoFile
    /\ lastOp = [op |-> "onDrop", file |-> 1, emitted |-> FALSE]

\* C4: a step emits 'change' exactly once, carrying the new currentFile, when it
\* changes currentFile, and emits nothing when currentFile stays the same file
\* (so selecting the current file again emits nothing).
C4_OneChangePerTransition ==
    [][/\ currentFile' # currentFile =>
              changeCount' = changeCount + 1 /\ lastChange' = currentFile'
       /\ currentFile' = currentFile => changeCount' = changeCount]_vars

\* the selected file was selected again: one 'change' in total
C4_Witness ==
    /\ currentFile = 1
    /\ changeCount = 1
    /\ lastChange = 1
    /\ lastOp = [op |-> "setValue", file |-> 1, emitted |-> FALSE]

\* C5: the completion of a preview whose file is no longer currentFile is
\* discarded: it sets neither the thumbnail image nor the fallback icon.
C5_StaleCompletionDiscarded ==
    [][\A i \in 1 .. Len(previews) :
          (previews[i].state = "pending" /\ previews'[i].state # "pending"
              /\ previews[i].file # currentFile)
              => bgImage' = bgImage /\ icons' = icons]_vars

\* C6: pushPending calls minus popPending calls is the number of previews still
\* in flight; it is never negative, and zero when every preview has settled.
C6_PendingMatchesInFlight ==
    /\ pendingCount = Cardinality(InFlight)
    /\ pendingCount >= 0
    /\ (~showDropTarget => pendingCount = 0)

\* one preview failed on its load event, the other is still in flight
C6_Witness ==
    /\ Len(previews) = 2
    /\ previews[1].state = "rejected"
    /\ previews[2].state = "pending"
    /\ pendingCount = 1

\* C7: a preview whose read or decode completed with an error has reached
\* Failed: its Deferred is rejected (fallback icon shown, pending state popped).
C7_ErrorReachesFailed ==
    \A i \in 1 .. Len(previews) :
        previews[i].stage \in {"readError", "decodeError"} => previews[i].state = "rejected"

\* C8: a load event settles the preview as Ready exactly when naturalWidth and
\* naturalHeight are greater than zero and complete is true, and as Failed
\* otherwise; a settled preview never changes again.
C8_ReadyIffDecoded ==
    [][/\ \A i \in 1 .. Len(previews), d \in DecodeResults :
              imgLoad(i, d) =>
                  /\ previews'[i].state =
                        IF d.w > 0 /\ d.h > 0 /\ d.complete THEN "resolved" ELSE "rejected"
                  /\ previews[i].state = "pending"
       /\ \A i \in 1 .. Len(previews) :
              previews[i].state # "pending" => previews'[i] = previews[i]]_vars

\* one preview ended Ready and one ended Failed, both on a load event
C8_Witness ==
    /\ Len(previews) = 2
    /\ previews[1].state = "resolved"
    /\ previews[2].state = "rejected"
    /\ previews[2].stage = "loaded"

C10_Original ==
    Has(emitLog, "pushPending") =>
        IndexOf(emitLog, "hostListeners") < IndexOf(emitLog, "pushPending")

\* C10 amended: the 'change' of a selection is emitted, after currentFile is
\* assigned, before the preview pipeline is started; the pipeline is started by
\* the widget's own updateUI listener, the first listener of 'change', so the
\* host application's listeners, connected after construction, get that
\* 'change' after the pending state was pushed and the read begun.
C10_EmitThenPipelineThenHost ==
    Has(emitLog, "pushPending") =>
        /\ IndexOf(emitLog, "assign") < IndexOf(emitLog, "emit")
        /\ IndexOf(emitLog, "emit") < IndexOf(emitLog, "pushPending")
        /\ IndexOf(emitLog, "pushPending") < IndexOf(emitLog, "hostListeners")
        /\ Has(emitLog, "readAsDataURL") =>
              IndexOf(emitLog, "readAsDataURL") < IndexOf(emitLog, "hostListeners")

\* a selection started a read
C10_Witness ==
    /\ Has(emitLog, "readAsDataURL")
    /\ lastChange = currentFile
    /\ currentFile # NoFile

\* C11: a widget on a platform without file-selection support is disabled in
\* every state, whatever setDisabled is given; on a supporting platform
\* setDisabled( d ) leaves the widget disabled exactly when d is true.
C11_DisabledWhenUnsupported ==
    /\ [](~isSupported => disabled)
    /\ [][\A d \in BOOLEAN :
             setDisabled(d) => disabled' = IF isSupported THEN d ELSE TRUE]_vars

\* a drop selected a file, which only an enabled widget lets it do, and the
\* widget is disabled now: setDisabled( true ) ran on a supporting platform
C11_Witness ==
    /\ isSupported
    /\ disabled
    /\ lastOp = [op |-> "onDrop", file |-> 1, emitted |-> TRUE]

\* C12: setValue( null ), the info field's clear action and a picker change
\* event with no file leave currentFile null, and emit 'change' with null
\* exactly when a file was selected before.
C12_ClearEmitsIffSelected ==
    [][(/\ lastOp'.file = NoFile
        /\ setValueCall(NoFile) \/ onInfoChange \/ onFileSelected(NoFile)) =>
          /\ currentFile' = NoFile
          /\ IF currentFile # NoFile
             THEN changeCount' = changeCount + 1 /\ lastChange' = NoFile
             ELSE changeCount' = changeCount]_vars

\* the clear action cleared a selected file: a selection and a clearing, each
\* with its 'change'
C12_Witness ==
    /\ currentFile = NoFile
    /\ changeCount = 2
    /\ lastChange = NoFile
    /\ lastOp = [op |-> "onInfoChange", file |-> NoFile, emitted |-> TRUE]

\* C13: selecting, in a drop-target widget, a file whose type does not begin
\* with "image/" (or is missing) or whose size is not under the limit settles
\* its preview inside the selecting step: no read is started, the pending state
\* pushed for it is popped before the host application's listeners run, and
\* no preview is left in flight for it.
C13_NotApplicableSettlesAtOnce ==
    [][(/\ isSupported
        /\ showDropTarget
        /\ changeCount' # changeCount
        /\ currentFile' # NoFile
        /\ \/ ~indexOfIsZero(FileType(currentFile'), ImageSlash)
           \/ FileSize(currentFile') >= thumbnailSizeLimit * MiB)
          => /\ previews' = previews
             /\ pendingCount' = pendingCount
             /\ icons' = icons + 1
             /\ ~Has(emitLog', "readAsDataURL")
             /\ IndexOf(emitLog', "pushPending") < IndexOf(emitLog', "popPending")
             /\ IndexOf(emitLog', "popPending") < IndexOf(emitLog', "hostListeners")]_vars

\* the text file was selected: the fallback icon is shown, nothing is pending
C13_Witness ==
    /\ showDropTarget
    /\ currentFile = 3
    /\ changeCount = 1
    /\ previews = <<>>
    /\ pendingCount = 0
    /\ icons = 1

\* the patterns of list in the opposite order
Reversed(list) == [k \in 1 .. Len(list) |-> list[Len(list) + 1 - k]]

\* C14: isAllowedType returns true when the configuration is accept-all or the
\* MIME type is empty; otherwise it returns true exactly when some pattern of
\* the list equals the MIME type, or ends in "/*" and the MIME type starts with
\* the pattern less its trailing "*"; reversing the list does not change the
\* result.
C14_IsAllowedTypeContract ==
    call.fn = "isAllowedType" =>
        LET m == call.mimeType
            EndsInSlashStar(p) ==
                Len(p) >= 2 /\ p[Len(p) - 1] = "/" /\ p[Len(p)] = "*"
            StartsWithButLast(p) ==
                /\ Len(m) >= Len(p) - 1
                /\ \A k \in 1 .. Len(p) - 1 : m[k] = p[k]
            Matches(p) == p = m \/ (EndsInSlashStar(p) /\ StartsWithButLast(p))
        IN /\ call.result =
                 IF ~accept.isArray \/ Len(m) = 0
                 THEN TRUE
                 ELSE \E k \in 1 .. Len(accept.list) : Matches(accept.list[k])
           /\ call.result =
                 isAllowedType([accept EXCEPT !.list = Reversed(accept.list)], m)

\* "i/*" after a pattern that does not match lets "i/i" through
C14_Witness ==
    /\ accept = AcceptList(<<<<"*">>, <<"i", "/", "*">>>>)
    /\ call = [fn |-> "isAllowedType", mimeType |-> <<"i", "/", "i">>, result |-> TRUE]

\* C15: getFilename returns the selected file's name; with no file selected
\* SelectFileWidget returns the empty string and SelectFileInputWidget returns
\* what follows the last backslash of the raw value (all of it when it has no
\* backslash).
C15_GetFilename ==
    /\ call.fn = "SelectFileWidget.getFilename" =>
          call.result = IF currentFile # NoFile THEN FileName(currentFile) ELSE <<>>
    /\ call.fn = "SelectFileInputWidget.getFilename" =>
          LET v == call.value
              slashes == {k \in 1 .. Len(v) : v[k] = Backslash}
              last == IF slashes = {}
                      THEN 0
                      ELSE CHOOSE k \in slashes : \A h \in slashes : h <= k
          IN call.result =
                IF currentFile # NoFile
                THEN FileName(currentFile)
                ELSE [k \in 1 .. Len(v) - last |-> v[last + k]]

\* a fake path of two directories is stripped
C15_Witness ==
    /\ currentFile = NoFile
    /\ call = [fn |-> "SelectFileInputWidget.getFilename",
               value |-> <<"a", Backslash, Backslash, "a">>, result |-> <<"a">>]

\* C16 as stated: in a drop-target widget with no preview in flight the
\* thumbnail shows the current selection and nothing else: nothing with no
\* file, the file's image and no icon when its preview resolved, one fallback
\* icon and no image otherwise.
C16_ThumbnailReflectsSelection ==
    (showDropTarget /\ InFlight = {}) =>
        IF currentFile = NoFile
        THEN bgImage = NoFile /\ icons = 0
        ELSE IF /\ qualifies(currentFile, thumbnailSizeLimit)
                /\ previews[Len(previews)].state = "resolved"
             THEN bgImage = currentFile /\ icons = 0
             ELSE bgImage = NoFile /\ icons = 1

\* C17: after a dragenter or dragover the canDrop class is set exactly when
\* the widget is enabled and the first item's type is allowed or, with no
\* item, the types include 'Files'; after a dragleave and after a drop it is
\* not set; dragenter, dragover and dragleave leave the selection alone and
\* emit no 'change'.  (A drop records itself and its file in lastOp.)
C17_CanDrop ==
    [][/\ \A dt \in DragPayloads :
             onDragEnterOrOver(dt.itemOrFile, dt.typesHasFiles) =>
                /\ canDrop' =
                      /\ ~disabled
                      /\ \/ dt.itemOrFile # NoFile /\ ~Rejected(dt.itemOrFile)
                         \/ dt.itemOrFile = NoFile /\ dt.typesHasFiles
                /\ NoSelectionChange
       /\ onDragLeave => ~canDrop' /\ NoSelectionChange
       /\ (lastOp'.op = "onDrop" /\ onDrop(lastOp'.file)) => ~canDrop']_vars

\* a widget restricted to images shows the drop affordance over a file
C17_Witness ==
    /\ canDrop
    /\ accept.isArray
    /\ ~disabled
    /\ currentFile = 3

\* C18: a change event delivered while onFileSelected resets the native input
\* is ignored: with or without it, a picker event does what one setValue call
\* with the filtered file does, so a selection that changes nothing emits
\* nothing and any other emits once; this.inputClearing is false whenever no
\* onFileSelected call is running.  (A picker step records its file in lastOp.)
C18_ReentrantChangeIgnored ==
    /\ [](inputClearing = FALSE)
    /\ [][(lastOp'.op = "onFileSelected" /\ onFileSelected(lastOp'.file)) =>
             LET file == IF Rejected(lastOp'.file) THEN NoFile ELSE lastOp'.file
             IN /\ currentFile' = file
                /\ changeCount' =
                      IF currentFile = file THEN changeCount ELSE changeCount + 1
                /\ changeCount' # changeCount => lastChange' = file]_vars

\* file 1 was picked while it was selected already, and the reset of the native
\* input delivered a change event: nothing was emitted
C18_Witness ==
    /\ currentFile = 1
    /\ changeCount = 1
    /\ ~inputClearing
    /\ lastOp = [op |-> "onFileSelected", file |-> 1, emitted |-> FALSE, nested |-> TRUE]

====
